---- MODULE Spec2Model ----
(***************************************************************************)
(* Model of the OCR HTTP service of PaddleOCR-Desktop                      *)
(* (backend/rust-onnx/ocr-service/src/main.rs, feature "with-ocr").        *)
(*                                                                         *)
(* Spec      : concurrent requests (load, unload, model_status, recognize) *)
(*             against the shared model slot Arc<Mutex<Option<Arc<..>>>>.   *)
(* FairSpec  : Spec with weak fairness on every step except the completion *)
(*             of a predict call on the blocking pool.                     *)
(* NormSpec  : the recognize handler followed by the ocr2text handler on   *)
(*             its body, for every engine output within the bounds.        *)
(***************************************************************************)
EXTENDS Integers, Sequences, FiniteSets, TLC

\* ---------------------------------------------------------------- bounds
NumReqs == 3        \* HTTP requests served during one run
MaxRegions == 2     \* text regions on an engine page
MaxTextLen == 2     \* characters of a recognized text

Reqs == 1..NumReqs
Models == 1..NumReqs            \* a load builds at most one model
NoModel == 0                    \* Option::None in the slot / in a local

\* ---------------------------------------------------------------- Option
None == <<>>
Some(x) == <<x>>
IsSome(o) == Len(o) = 1
IsNone(o) == Len(o) = 0
Unwrap(o) == o[1]

\* ------------------------------------------------------ serde_json::Value
JNull == [t |-> "null"]
JNum(n) == [t |-> "num", n |-> n]
JStr(s) == [t |-> "str", s |-> s]
JArr(a) == [t |-> "arr", a |-> a]
JObj(f) == [t |-> "obj", o |-> f]

is_array(v) == v.t = "arr"
is_object(v) == v.t = "obj"
as_str(v) == IF v.t = "str" THEN Some(v.s) ELSE None

\* Value::get with a usize index (0-based) and with a string key
get_idx(v, i) == IF v.t = "arr" /\ i < Len(v.a) THEN Some(v.a[i + 1]) ELSE None
get_key(v, k) == IF v.t = "obj" /\ k \in DOMAIN v.o THEN Some(v.o[k]) ELSE None

\* ------------------------------------------------------------------ text
\* a text is a sequence of characters; " " stands for any white space
Chars == {"a", " "}
NL == "\n"
IsSpace(c) == c = " "

RECURSIVE TrimStart(_)
TrimStart(s) == IF s # <<>> /\ IsSpace(Head(s)) THEN TrimStart(Tail(s)) ELSE s

RECURSIVE TrimEnd(_)
TrimEnd(s) ==
    IF s # <<>> /\ IsSpace(s[Len(s)]) THEN TrimEnd(SubSeq(s, 1, Len(s) - 1)) ELSE s

\* str::trim
trim(s) == TrimEnd(TrimStart(s))

\* [String]::join("\n")
RECURSIVE join(_)
join(lines) ==
    IF lines = <<>> THEN <<>>
    ELSE IF Len(lines) = 1 THEN lines[1]
    ELSE lines[1] \o <<NL>> \o join(Tail(lines))

\* ------------------------------------------------------------- responses
\* An HTTP response: status, the error kind of the design (or "Ok"), the
\* human-readable message, and the JSON payload of a success.  A handler
\* that panics produces no response at all: Aborted.
OkResponse(msg, body) == [status |-> 200, kind |-> "Ok", message |-> msg, body |-> body]
ErrResponse(st, k, msg) == [status |-> st, kind |-> k, message |-> msg, body |-> JNull]
Aborted == [status |-> 0, kind |-> "Aborted", message |-> "panic", body |-> JNull]
NoResponse == [status |-> 0, kind |-> "Pending", message |-> "", body |-> JNull]

\* --------------------------------------------------------- engine output
\* BoundingBox.points: polygons as the detector emits them
Polygons ==
    { << <<0, 0>>, <<2, 0>>, <<2, 1>>, <<0, 1>> >>,
      << <<1, 0>>, <<3, 1>>, <<2, 3>>, <<0, 2>> >> }
Scores == {90}                  \* confidence, in hundredths
ZeroScore == 0                  \* f32 0.0
Texts == UNION {[1..k -> Chars] : k \in 0..MaxTextLen}

\* TextRegion: text and confidence are Option
Regions ==
    [bounding_box : Polygons,
     text : {None} \cup {Some(x) : x \in Texts},
     confidence : {None} \cup {Some(x) : x \in Scores}]
Pages == UNION {[1..k -> Regions] : k \in 0..MaxRegions}

\* what becomes of the closure given to web::block for a one-image batch:
\* predict returns Ok or Err, the engine panics on the worker thread, or the
\* task never runs to its end (BlockingError: pool shut down, task cancelled)
PredictOk(batch) == [t |-> "Ok", batch |-> batch]
PredictErr == [t |-> "Err", batch |-> <<>>]
EnginePanic == [t |-> "Panic", batch |-> <<>>]
BlockingErr == [t |-> "BlockingError", batch |-> <<>>]

\* line 164: web::block(..).await joins the task; a panic of the closure comes
\* out as Err(BlockingError), a returned value as Ok(value)
web_block(out) == IF out.t = "Panic" THEN BlockingErr ELSE out

\* ---------------------------------------------------- recognize handler
\* the uploaded multipart body, as the field loop leaves it
Uploads == {"image", "unknown", "corrupt", "missing", "chunkerr"}

\* lines 107-134: a chunk error panics in unwrap, anything else goes on
ReadUpload(up) == IF up = "chunkerr" THEN Aborted ELSE NoResponse

\* lines 136-149: file present, format probe, decode, in this order; an
\* "unknown" upload (a PDF, text: no image signature) would fail the decoder
\* too, a "corrupt" one has an image signature and fails only the decoder
ValidateDecodeFirst(up) ==
    IF up = "missing" THEN ErrResponse(400, "BadInput", "missing file")
    ELSE IF up \in {"unknown", "corrupt"}
    THEN ErrResponse(400, "BadInput", "Failed to decode image")
    ELSE NoResponse
Validate(up) ==
    IF up = "missing" THEN ErrResponse(400, "BadInput", "missing file")
    ELSE IF up = "unknown"
    THEN ErrResponse(400, "BadInput", "Unsupported file type or PDF is not supported by Rust service yet")
    ELSE IF up = "corrupt" THEN ErrResponse(400, "BadInput", "Failed to decode image")
    ELSE NoResponse

\* lines 156-159
CheckHandleSkipped(h) == NoResponse
CheckHandle(h) ==
    IF h = NoModel THEN ErrResponse(400, "ModelNotLoaded", "Model not loaded")
    ELSE NoResponse

\* lines 175-178: one line of the public schema
NormalizeRegion(region) ==
    LET pts == region.bounding_box
        box_points == JArr([i \in 1..Len(pts) |-> JArr(<<JNum(pts[i][1]), JNum(pts[i][2])>>)])
        text == IF IsSome(region.text) THEN Unwrap(region.text) ELSE <<>>
        score == IF IsSome(region.confidence) THEN Unwrap(region.confidence) ELSE ZeroScore
    IN JArr(<<box_points, JArr(<<JStr(text), JNum(score)>>)>>)

\* lines 173-181
NormalizePageSkipsTextless(results) ==
    LET kept == SelectSeq(results, LAMBDA g : IsSome(g.text))
        lines == [i \in 1..Len(kept) |-> NormalizeRegion(kept[i])]
    IN JObj([result |-> JArr(<<JArr(lines)>>)])
NormalizePage(results) ==
    LET lines == [i \in 1..Len(results) |-> NormalizeRegion(results[i])]
    IN JObj([result |-> JArr(<<JArr(lines)>>)])

\* lines 165-181: vec_res.remove(0) panics on an empty batch
MapPredict(res) ==
    IF res.t = "Ok"
    THEN IF res.batch = <<>> THEN Aborted
         ELSE OkResponse("", NormalizePage(res.batch[1]))
    ELSE IF res.t = "Err" THEN ErrResponse(500, "InferenceFailure", "OCR error")
    ELSE ErrResponse(500, "TaskFailure", "Task error")

\* ------------------------------------------------------ ocr2text handler
\* line.get(1).and_then(|t| t.get(0)).and_then(|s| s.as_str())
LineText(line) ==
    LET t == get_idx(line, 1)
    IN IF IsNone(t) THEN None
       ELSE LET s == get_idx(Unwrap(t), 0)
            IN IF IsNone(s) THEN None ELSE as_str(Unwrap(s))

\* lines 293-297 and 307-311: push the texts whose trim is not empty
RECURSIVE CollectLinesUnfiltered(_)
CollectLinesUnfiltered(lines) ==
    IF lines = <<>> THEN <<>>
    ELSE LET txt == LineText(Head(lines))
             rest == CollectLinesUnfiltered(Tail(lines))
         IN IF IsSome(txt) THEN <<Unwrap(txt)>> \o rest ELSE rest
RECURSIVE CollectLines(_)
CollectLines(lines) ==
    IF lines = <<>> THEN <<>>
    ELSE LET txt == LineText(Head(lines))
             rest == CollectLines(Tail(lines))
         IN IF IsSome(txt) /\ trim(Unwrap(txt)) # <<>> THEN <<Unwrap(txt)>> \o rest
            ELSE rest

\* lines 289-300: one page object of a multi-page result
PageTexts(page) ==
    LET r == get_key(page, "result")
        page_result == IF IsSome(r) THEN Unwrap(r) ELSE JNull
    IN IF is_array(page_result) /\ IsSome(get_idx(page_result, 0))
          /\ is_array(Unwrap(get_idx(page_result, 0)))
       THEN CollectLines(Unwrap(get_idx(page_result, 0)).a)
       ELSE <<>>

RECURSIVE AllPageTexts(_)
AllPageTexts(pages) ==
    IF pages = <<>> THEN <<>> ELSE PageTexts(Head(pages)) \o AllPageTexts(Tail(pages))

\* line 287
IsMultiPageAnyObject(result_data) ==
    /\ is_array(result_data)
    /\ result_data.a # <<>>
    /\ is_object(result_data.a[1])
IsMultiPage(result_data) ==
    /\ is_array(result_data)
    /\ result_data.a # <<>>
    /\ is_object(result_data.a[1])
    /\ IsSome(get_key(result_data.a[1], "page"))

\* lines 284-315
all_text_lines(result_data) ==
    IF IsMultiPage(result_data) THEN AllPageTexts(result_data.a)
    ELSE IF is_array(result_data) /\ result_data.a # <<>> /\ is_array(result_data.a[1])
    THEN CollectLines(result_data.a[1].a)
    ELSE <<>>

\* lines 278-319
ocr2textRejectsNonArray(body) ==
    IF IsNone(get_key(body, "result")) \/ ~is_array(Unwrap(get_key(body, "result")))
    THEN ErrResponse(400, "InvalidResultFormat", "Invalid OCR result format")
    ELSE OkResponse("", JObj([text |-> JStr(join(all_text_lines(Unwrap(get_key(body, "result")))))]))
ocr2text(body) ==
    IF IsNone(get_key(body, "result"))
    THEN ErrResponse(400, "InvalidResultFormat", "Invalid OCR result format")
    ELSE OkResponse("", JObj([text |-> JStr(join(all_text_lines(Unwrap(get_key(body, "result")))))]))

\* ------------------------------------------------------------ the service
VARIABLES
    slot,           \* AppState.ocr: NoModel or the model in Option<Arc<OAROCR>>
    mutex,          \* 0 or the request that holds the MutexGuard
    strong,         \* Arc strong count of every model
    dropped,        \* models whose strong count reached 0: destroyed
    built,          \* number of models built so far
    kind,           \* handler each request runs
    pc,             \* where each request is in its handler
    upload,         \* recognize: what the multipart loop received
    arc_ocr,        \* local arc_ocr of load_model and of recognize
    arc_for_thread, \* handle moved into the web::block closure
    res,            \* recognize: what web::block(..).await yielded
    resp,           \* response returned to the caller
    scheduled,      \* history: a worker-pool task was spawned for the request
    seen,           \* history: slot states (loaded or not) since the request was issued
    inflight,       \* history: predicts running ever since the request was issued
    old,            \* history: slot contents an unload replaced
    npc,            \* NormSpec: position in the recognize -> ocr2text pipeline
    nin,            \* NormSpec: input of the recognize call
    nrec,           \* NormSpec: response of recognize
    ntext,          \* NormSpec: response of ocr2text
    tpc,            \* TextSpec: position of the ocr2text request
    tin,            \* TextSpec: JSON body posted to ocr2text
    tout,           \* TextSpec: response of ocr2text
    dpc,            \* DrawSpec: position of the draw request
    din,            \* DrawSpec: what the multipart loop of draw received
    dout,           \* DrawSpec: response of draw
    cell,           \* MiniSpec: the static OCR OnceCell, NoModel or the model
    permit,         \* MiniSpec: 0 or the request holding the OnceCell permit
    mbuilt,         \* MiniSpec: number of models built so far
    mpc,            \* MiniSpec: where each request is in ocr_handler
    mocr,           \* MiniSpec: the handle get_ocr() returned to the request
    mresp,          \* MiniSpec: response of ocr_handler
    bpc,            \* BootSpec: position of start_backend
    benv,           \* BootSpec: what start_backend finds on the machine
    bstdout,        \* BootSpec: what the backend writes on its stdout
    bread,          \* BootSpec: lines start_backend has taken from the reader
    bchild,         \* BootSpec: the backend process
    bwaiter,        \* BootSpec: a thread is blocked in child.wait()
    bret            \* BootSpec: what start_backend returned

svars == <<slot, mutex, strong, dropped, built, kind, pc, upload, arc_ocr,
           arc_for_thread, res, resp, scheduled, seen, inflight, old>>
nvars == <<npc, nin, nrec, ntext>>
tvars == <<tpc, tin, tout>>
dvars == <<dpc, din, dout>>
mvars == <<cell, permit, mbuilt, mpc, mocr, mresp>>
bvars == <<bpc, benv, bstdout, bread, bchild, bwaiter, bret>>
ovars == <<npc, nin, nrec, ntext, tpc, tin, tout, dpc, din, dout,
           cell, permit, mbuilt, mpc, mocr, mresp,
           bpc, benv, bstdout, bread, bchild, bwaiter, bret>>
vars == <<slot, mutex, strong, dropped, built, kind, pc, upload, arc_ocr,
          arc_for_thread, res, resp, scheduled, seen, inflight, old,
          npc, nin, nrec, ntext, tpc, tin, tout, dpc, din, dout,
          cell, permit, mbuilt, mpc, mocr, mresp,
          bpc, benv, bstdout, bread, bchild, bwaiter, bret>>

Kinds == {"load", "unload", "status", "recognize"}
JBool(b) == [t |-> "bool", b |-> b]

\* Arc::clone, and drop of an Arc: the model is destroyed with its last reference
ArcCloneBorrow(s, m) == s
ArcClone(s, m) == IF m = NoModel THEN s ELSE [s EXCEPT ![m] = @ + 1]
ArcDropForgets(s, m) == s
ArcDrop(s, m) == IF m = NoModel THEN s ELSE [s EXCEPT ![m] = @ - 1]
Destroyed(s, d, m) == IF m # NoModel /\ s[m] = 1 THEN d \cup {m} ELSE d

\* pages the engine returns in the concurrent specification
SampleRegion ==
    [bounding_box |-> << <<0, 0>>, <<2, 0>>, <<2, 1>>, <<0, 1>> >>,
     text |-> Some(<<"a">>), confidence |-> Some(90)]
PredictResults(pages) ==
    {PredictOk(<<p>>) : p \in pages} \cup {PredictOk(<<>>), PredictErr, EnginePanic, BlockingErr}

\* main, line 324: the slot starts empty
SInit ==
    /\ slot = NoModel
    /\ mutex = 0
    /\ strong = [m \in Models |-> 0]
    /\ dropped = {}
    /\ built = 0
    /\ kind = [r \in Reqs |-> "none"]
    /\ pc = [r \in Reqs |-> "idle"]
    /\ upload = [r \in Reqs |-> "none"]
    /\ arc_ocr = [r \in Reqs |-> NoModel]
    /\ arc_for_thread = [r \in Reqs |-> NoModel]
    /\ res = [r \in Reqs |-> BlockingErr]
    /\ resp = [r \in Reqs |-> NoResponse]
    /\ scheduled = [r \in Reqs |-> FALSE]
    /\ seen = [r \in Reqs |-> {}]
    /\ inflight = [r \in Reqs |-> {}]
    /\ old = [r \in Reqs |-> NoModel]

NIdle ==
    /\ npc = "off"
    /\ nin = [upload |-> "missing", handle |-> NoModel, res |-> BlockingErr]
    /\ nrec = NoResponse
    /\ ntext = NoResponse

\* no ocr2text, draw or minimal-service request is under way
TIdle ==
    /\ tpc = "off"
    /\ tin = JNull
    /\ tout = NoResponse

DIdle ==
    /\ dpc = "off"
    /\ din = JNull
    /\ dout = NoResponse

\* backend/src/main.rs, line 15: the cell starts uninitialised
MInit ==
    /\ cell = NoModel
    /\ permit = 0
    /\ mbuilt = 0
    /\ mpc = [r \in Reqs |-> "idle"]
    /\ mocr = [r \in Reqs |-> NoModel]
    /\ mresp = [r \in Reqs |-> NoResponse]

\* what start_backend returns: Ok(port) or Err(message)
RetOk(port) == [ok |-> TRUE, port |-> port, err |-> ""]
RetErr(msg) == [ok |-> FALSE, port |-> 0, err |-> msg]
NoReturn == [ok |-> FALSE, port |-> 0, err |-> "pending"]
NoOutput == [lines |-> <<>>, end |-> "eof"]

\* start_backend has not been invoked
BIdle ==
    /\ bpc = "off"
    /\ benv = "ok"
    /\ bstdout = NoOutput
    /\ bread = 0
    /\ bchild = "none"
    /\ bwaiter = FALSE
    /\ bret = NoReturn

Init == SInit /\ NIdle /\ TIdle /\ DIdle /\ MInit /\ BIdle

\* a client issues request r for handler k (requests are interchangeable, so
\* they are issued in index order)
FirstPc(k) ==
    IF k = "load" THEN "build" ELSE IF k = "recognize" THEN "recv" ELSE "lock"

Start(r, k) ==
    /\ pc[r] = "idle"
    /\ \A q \in Reqs : q < r => pc[q] # "idle"
    /\ kind' = [kind EXCEPT ![r] = k]
    /\ pc' = [pc EXCEPT ![r] = FirstPc(k)]
    /\ seen' = [seen EXCEPT ![r] = IF k = "status" THEN {slot # NoModel} ELSE {}]
    /\ inflight' = [inflight EXCEPT ![r] =
            IF k = "recognize" THEN {} ELSE {q \in Reqs : pc[q] = "predict"}]
    /\ UNCHANGED <<slot, mutex, strong, dropped, built, upload, arc_ocr,
                   arc_for_thread, res, resp, scheduled, old>>

\* Mutex::lock blocks until no other guard is alive
LockFreeUnlessPredicting == mutex = 0 /\ \A q \in Reqs : pc[q] # "predict"
LockFree == mutex = 0

\* state.ocr.lock(): lines 55, 72, 86, 153
Acquire(r) ==
    /\ pc[r] = "lock"
    /\ LockFree
    /\ mutex' = r
    /\ pc' = [pc EXCEPT ![r] = "crit"]
    /\ UNCHANGED <<slot, strong, dropped, built, kind, upload, arc_ocr,
                   arc_for_thread, res, resp, scheduled, seen, inflight, old>>

\* every model_status call in progress observes the slot's new state
Observe(v) ==
    [q \in Reqs |-> IF kind[q] = "status" /\ pc[q] # "done" THEN seen[q] \cup {v} ELSE seen[q]]

\* load_model, lines 42-54 and 59: build the model outside the lock
LoadBuildClearsFirst(r) ==
    /\ kind[r] = "load" /\ pc[r] = "build"
    /\ slot' = NoModel
    /\ \E ok \in BOOLEAN :
        IF ok
        THEN /\ built' = built + 1
             /\ strong' = [strong EXCEPT ![built + 1] = 1]
             /\ arc_ocr' = [arc_ocr EXCEPT ![r] = built + 1]
             /\ pc' = [pc EXCEPT ![r] = "lock"]
             /\ resp' = resp
        ELSE /\ resp' = [resp EXCEPT ![r] =
                    ErrResponse(500, "ModelBuildFailure", "Failed to build model")]
             /\ pc' = [pc EXCEPT ![r] = "done"]
             /\ UNCHANGED <<built, strong, arc_ocr>>
    /\ UNCHANGED <<mutex, dropped, kind, upload, arc_for_thread, res,
                   scheduled, seen, inflight, old>>
LoadBuild(r) ==
    /\ kind[r] = "load" /\ pc[r] = "build"
    /\ \E ok \in BOOLEAN :
        IF ok
        THEN /\ built' = built + 1
             /\ strong' = [strong EXCEPT ![built + 1] = 1]
             /\ arc_ocr' = [arc_ocr EXCEPT ![r] = built + 1]
             /\ pc' = [pc EXCEPT ![r] = "lock"]
             /\ resp' = resp
        ELSE /\ resp' = [resp EXCEPT ![r] =
                    ErrResponse(500, "ModelBuildFailure", "Failed to build model")]
             /\ pc' = [pc EXCEPT ![r] = "done"]
             /\ UNCHANGED <<built, strong, arc_ocr>>
    /\ UNCHANGED <<slot, mutex, dropped, kind, upload, arc_for_thread, res,
                   scheduled, seen, inflight, old>>

\* load_model, lines 56-57: *guard = Some(arc_ocr) drops the previous handle
LoadSwap(r) ==
    /\ kind[r] = "load" /\ pc[r] = "crit" /\ mutex = r
    /\ slot' = arc_ocr[r]
    /\ arc_ocr' = [arc_ocr EXCEPT ![r] = NoModel]
    /\ strong' = ArcDrop(strong, slot)
    /\ dropped' = Destroyed(strong, dropped, slot)
    /\ seen' = Observe(TRUE)
    /\ resp' = [resp EXCEPT ![r] = OkResponse("OCR model loaded successfully", JNull)]
    /\ pc' = [pc EXCEPT ![r] = "ret"]
    /\ UNCHANGED <<mutex, built, kind, upload, arc_for_thread, res, scheduled,
                   inflight, old>>

\* unload_model, lines 73-74: *guard = None drops the previous handle
UnloadSwapStrict(r) ==
    /\ kind[r] = "unload" /\ pc[r] = "crit" /\ mutex = r
    /\ slot' = NoModel
    /\ strong' = ArcDrop(strong, slot)
    /\ dropped' = Destroyed(strong, dropped, slot)
    /\ old' = [old EXCEPT ![r] = slot]
    /\ seen' = Observe(FALSE)
    /\ resp' = [resp EXCEPT ![r] =
            IF slot = NoModel THEN ErrResponse(400, "ModelNotLoaded", "Model not loaded")
            ELSE OkResponse("OCR model unloaded", JNull)]
    /\ pc' = [pc EXCEPT ![r] = "ret"]
    /\ UNCHANGED <<mutex, built, kind, upload, arc_ocr, arc_for_thread, res,
                   scheduled, inflight>>
UnloadSwap(r) ==
    /\ kind[r] = "unload" /\ pc[r] = "crit" /\ mutex = r
    /\ slot' = NoModel
    /\ strong' = ArcDrop(strong, slot)
    /\ dropped' = Destroyed(strong, dropped, slot)
    /\ old' = [old EXCEPT ![r] = slot]
    /\ seen' = Observe(FALSE)
    /\ resp' = [resp EXCEPT ![r] = OkResponse("OCR model unloaded", JNull)]
    /\ pc' = [pc EXCEPT ![r] = "ret"]
    /\ UNCHANGED <<mutex, built, kind, upload, arc_ocr, arc_for_thread, res,
                   scheduled, inflight>>

\* Option::is_some on the slot, line 87
is_some_negated(h) == h = NoModel
is_some(h) == h # NoModel

\* model_status, line 87: guard.is_some()
StatusReadTakes(r) ==
    /\ kind[r] = "status" /\ pc[r] = "crit" /\ mutex = r
    /\ resp' = [resp EXCEPT ![r] = OkResponse("", JObj([loaded |-> JBool(is_some(slot))]))]
    /\ slot' = NoModel
    /\ strong' = ArcDrop(strong, slot)
    /\ dropped' = Destroyed(strong, dropped, slot)
    /\ pc' = [pc EXCEPT ![r] = "ret"]
    /\ UNCHANGED <<mutex, built, kind, upload, arc_ocr,
                   arc_for_thread, res, scheduled, seen, inflight, old>>
StatusRead(r) ==
    /\ kind[r] = "status" /\ pc[r] = "crit" /\ mutex = r
    /\ resp' = [resp EXCEPT ![r] = OkResponse("", JObj([loaded |-> JBool(is_some(slot))]))]
    /\ pc' = [pc EXCEPT ![r] = "ret"]
    /\ UNCHANGED <<slot, mutex, strong, dropped, built, kind, upload, arc_ocr,
                   arc_for_thread, res, scheduled, seen, inflight, old>>

\* the guard of load_model, unload_model and model_status is dropped when the
\* handler returns its response: lines 58, 75, 88
Return(r) ==
    /\ pc[r] = "ret" /\ mutex = r
    /\ mutex' = 0
    /\ pc' = [pc EXCEPT ![r] = "done"]
    /\ UNCHANGED <<slot, strong, dropped, built, kind, upload, arc_ocr,
                   arc_for_thread, res, resp, scheduled, seen, inflight, old>>

\* recognize, lines 107-134: await the multipart fields and their chunks
RecRecv(r) ==
    /\ kind[r] = "recognize" /\ pc[r] = "recv"
    /\ \E up \in Uploads :
        /\ upload' = [upload EXCEPT ![r] = up]
        /\ IF ReadUpload(up).kind = "Aborted"
           THEN /\ resp' = [resp EXCEPT ![r] = ReadUpload(up)]
                /\ pc' = [pc EXCEPT ![r] = "done"]
           ELSE /\ resp' = resp
                /\ pc' = [pc EXCEPT ![r] = "decode"]
    /\ UNCHANGED <<slot, mutex, strong, dropped, built, kind, arc_ocr,
                   arc_for_thread, res, scheduled, seen, inflight, old>>

\* recognize, lines 136-149: file check, format probe, decode
RecValidate(r) ==
    /\ kind[r] = "recognize" /\ pc[r] = "decode"
    /\ IF Validate(upload[r]).kind # "Pending"
       THEN /\ resp' = [resp EXCEPT ![r] = Validate(upload[r])]
            /\ pc' = [pc EXCEPT ![r] = "done"]
       ELSE /\ resp' = resp
            /\ pc' = [pc EXCEPT ![r] = "lock"]
    /\ UNCHANGED <<slot, mutex, strong, dropped, built, kind, upload, arc_ocr,
                   arc_for_thread, res, scheduled, seen, inflight, old>>

\* recognize, lines 152-159: clone the handle out of the slot, drop the guard
\* at the end of the block, fail if the slot was empty
RecSnapshotKeepsGuard(r) ==
    /\ kind[r] = "recognize" /\ pc[r] = "crit" /\ mutex = r
    /\ arc_ocr' = [arc_ocr EXCEPT ![r] = slot]
    /\ strong' = ArcClone(strong, slot)
    /\ IF CheckHandle(slot).kind # "Pending"
       THEN /\ resp' = [resp EXCEPT ![r] = CheckHandle(slot)]
            /\ pc' = [pc EXCEPT ![r] = "done"]
            /\ mutex' = 0
       ELSE /\ resp' = resp
            /\ pc' = [pc EXCEPT ![r] = "dispatch"]
            /\ mutex' = mutex
    /\ UNCHANGED <<slot, dropped, built, kind, upload, arc_for_thread, res,
                   scheduled, seen, inflight, old>>
RecSnapshot(r) ==
    /\ kind[r] = "recognize" /\ pc[r] = "crit" /\ mutex = r
    /\ arc_ocr' = [arc_ocr EXCEPT ![r] = slot]
    /\ strong' = ArcClone(strong, slot)
    /\ mutex' = 0
    /\ IF CheckHandle(slot).kind # "Pending"
       THEN /\ resp' = [resp EXCEPT ![r] = CheckHandle(slot)]
            /\ pc' = [pc EXCEPT ![r] = "done"]
       ELSE /\ resp' = resp
            /\ pc' = [pc EXCEPT ![r] = "dispatch"]
    /\ UNCHANGED <<slot, dropped, built, kind, upload, arc_for_thread, res,
                   scheduled, seen, inflight, old>>

\* recognize, lines 162-164: clone the handle into the closure, web::block
RecDispatch(r) ==
    /\ kind[r] = "recognize" /\ pc[r] = "dispatch"
    /\ arc_for_thread' = [arc_for_thread EXCEPT ![r] = arc_ocr[r]]
    /\ strong' = ArcClone(strong, arc_ocr[r])
    /\ scheduled' = [scheduled EXCEPT ![r] = TRUE]
    /\ pc' = [pc EXCEPT ![r] = "predict"]
    /\ UNCHANGED <<slot, mutex, dropped, built, kind, upload, arc_ocr, res,
                   resp, seen, inflight, old>>

\* line 164: the closure ends on the blocking pool (result, engine error or
\* panic of the task) and its handle is dropped
PredictFinish(r) ==
    /\ kind[r] = "recognize" /\ pc[r] = "predict"
    /\ \E out \in PredictResults({<<SampleRegion>>}) :
        res' = [res EXCEPT ![r] = out]
    /\ strong' = ArcDrop(strong, arc_for_thread[r])
    /\ dropped' = Destroyed(strong, dropped, arc_for_thread[r])
    /\ arc_for_thread' = [arc_for_thread EXCEPT ![r] = NoModel]
    /\ pc' = [pc EXCEPT ![r] = "respond"]
    /\ inflight' = [q \in Reqs |-> inflight[q] \ {r}]
    /\ UNCHANGED <<slot, mutex, built, kind, upload, arc_ocr, resp, scheduled,
                   seen, old>>

\* recognize, lines 165-182: map the result, arc_ocr is dropped on return
RecRespond(r) ==
    /\ kind[r] = "recognize" /\ pc[r] = "respond"
    /\ resp' = [resp EXCEPT ![r] = MapPredict(web_block(res[r]))]
    /\ strong' = ArcDrop(strong, arc_ocr[r])
    /\ dropped' = Destroyed(strong, dropped, arc_ocr[r])
    /\ arc_ocr' = [arc_ocr EXCEPT ![r] = NoModel]
    /\ pc' = [pc EXCEPT ![r] = "done"]
    /\ UNCHANGED <<slot, mutex, built, kind, upload, arc_for_thread, res,
                   scheduled, seen, inflight, old>>

Next ==
    \/ \E r \in Reqs, k \in Kinds : Start(r, k) /\ UNCHANGED ovars
    \/ \E r \in Reqs : Acquire(r) /\ UNCHANGED ovars
    \/ \E r \in Reqs : LoadBuild(r) /\ UNCHANGED ovars
    \/ \E r \in Reqs : LoadSwap(r) /\ UNCHANGED ovars
    \/ \E r \in Reqs : UnloadSwap(r) /\ UNCHANGED ovars
    \/ \E r \in Reqs : StatusRead(r) /\ UNCHANGED ovars
    \/ \E r \in Reqs : Return(r) /\ UNCHANGED ovars
    \/ \E r \in Reqs : RecRecv(r) /\ UNCHANGED ovars
    \/ \E r \in Reqs : RecValidate(r) /\ UNCHANGED ovars
    \/ \E r \in Reqs : RecSnapshot(r) /\ UNCHANGED ovars
    \/ \E r \in Reqs : RecDispatch(r) /\ UNCHANGED ovars
    \/ \E r \in Reqs : PredictFinish(r) /\ UNCHANGED ovars
    \/ \E r \in Reqs : RecRespond(r) /\ UNCHANGED ovars

Spec == Init /\ [][Next]_vars

\* Every step of a handler is eventually taken, except the end of a predict
\* call: nothing bounds how long the engine runs (no timeout, no cancellation).
Step(r) ==
    \/ Acquire(r) \/ LoadBuild(r) \/ LoadSwap(r) \/ UnloadSwap(r) \/ StatusRead(r)
    \/ Return(r) \/ RecRecv(r) \/ RecValidate(r) \/ RecSnapshot(r) \/ RecDispatch(r)
    \/ RecRespond(r)

FairSpec == Spec /\ \A r \in Reqs : WF_vars(Step(r) /\ UNCHANGED ovars)

\* C4: whatever the predict calls in flight do (they may never end), the
\* service always comes back to a state where every load, unload and
\* model_status issued so far has returned and no recognize is still waiting
\* for, or holding, the mutex for its snapshot of the slot.
C4_LifecycleNeverWaitsForPredict ==
    []<>(\A r \in Reqs :
            /\ kind[r] \in {"load", "unload", "status"} => pc[r] = "done"
            /\ pc[r] \notin {"lock", "crit", "ret"})

\* ------------------------------------------ recognize, then ocr2text on it
\* the recognize handler from end to end, lines 100-182, for one request
Recognize(in) ==
    IF ReadUpload(in.upload).kind # "Pending" THEN ReadUpload(in.upload)
    ELSE IF Validate(in.upload).kind # "Pending" THEN Validate(in.upload)
    ELSE IF CheckHandle(in.handle).kind # "Pending" THEN CheckHandle(in.handle)
    ELSE MapPredict(web_block(in.res))

\* inputs of the call: the upload, the handle found in the slot, and what the
\* engine answers when it is reached
NInputs ==
    {[upload |-> u, handle |-> NoModel, res |-> BlockingErr] : u \in Uploads}
    \cup {[upload |-> "image", handle |-> 1, res |-> x] : x \in PredictResults(Pages)}

NInit ==
    /\ SInit /\ TIdle /\ DIdle /\ MInit /\ BIdle
    /\ npc = "recognize"
    /\ nin \in NInputs
    /\ nrec = NoResponse
    /\ ntext = NoResponse

NormRecognize ==
    /\ npc = "recognize"
    /\ nrec' = Recognize(nin)
    /\ npc' = IF Recognize(nin).kind = "Ok" THEN "ocr2text" ELSE "end"
    /\ UNCHANGED <<nin, ntext>>
    /\ UNCHANGED <<svars, tvars, dvars, mvars, bvars>>

\* the client posts the body it received to /api/ocr/ocr2text
NormOcr2text ==
    /\ npc = "ocr2text"
    /\ ntext' = ocr2text(nrec.body)
    /\ npc' = "end"
    /\ UNCHANGED <<nin, nrec>>
    /\ UNCHANGED <<svars, tvars, dvars, mvars, bvars>>

NNext == NormRecognize \/ NormOcr2text

NormSpec == NInit /\ [][NNext]_vars

\* ================================================================ claims
\* the engine's page, its texts and scores, read off the engine output
EnginePage == nin.res.batch[1]
RegionText(g) == IF IsSome(g.text) THEN Unwrap(g.text) ELSE <<>>
RegionScore(g) == IF IsSome(g.confidence) THEN Unwrap(g.confidence) ELSE 0
IsBlank(s) == \A i \in 1..Len(s) : s[i] = " "
EngineTexts == [i \in 1..Len(EnginePage) |-> RegionText(EnginePage[i])]
RoundTripDone == npc = "end" /\ nrec.kind = "Ok"

\* C9: with a supported image, a loaded model and a page from the engine,
\* recognize answers 200 with {"result": [lines]}: one page, one line per
\* region in the engine's order, line i = [points of region i, [text, score]],
\* text "" when the region has none, score 0 when it has none.
C9_OnePageOneLinePerRegion ==
    /\ ( /\ npc # "recognize" /\ nin.upload = "image" /\ nin.handle # NoModel
         /\ nin.res.t = "Ok" /\ nin.res.batch # <<>> )
       => (nrec.kind = "Ok" /\ nrec.status = 200)
    /\ nrec.kind = "Ok" =>
        /\ nrec.body.t = "obj" /\ DOMAIN nrec.body.o = {"result"}
        /\ nrec.body.o.result.t = "arr" /\ Len(nrec.body.o.result.a) = 1
        /\ nrec.body.o.result.a[1].t = "arr"
        /\ Len(nrec.body.o.result.a[1].a) = Len(EnginePage)
        /\ \A i \in 1..Len(EnginePage) :
            LET line == nrec.body.o.result.a[1].a[i]
                g == EnginePage[i]
            IN /\ line.t = "arr" /\ Len(line.a) = 2
               /\ line.a[1].t = "arr" /\ Len(line.a[1].a) = Len(g.bounding_box)
               /\ \A j \in 1..Len(g.bounding_box) :
                    /\ line.a[1].a[j].t = "arr" /\ Len(line.a[1].a[j].a) = 2
                    /\ line.a[1].a[j].a[1].n = g.bounding_box[j][1]
                    /\ line.a[1].a[j].a[2].n = g.bounding_box[j][2]
               /\ line.a[2].t = "arr" /\ Len(line.a[2].a) = 2
               /\ line.a[2].a[1].t = "str" /\ line.a[2].a[1].s = RegionText(g)
               /\ line.a[2].a[2].t = "num" /\ line.a[2].a[2].n = RegionScore(g)

\* a two-region page with distinct regions, one without text, one without score
C9_Witness ==
    /\ npc = "end" /\ nrec.kind = "Ok"
    /\ Len(EnginePage) >= 2
    /\ EnginePage[1] # EnginePage[2]
    /\ \E i \in 1..Len(EnginePage) : IsNone(EnginePage[i].text)
    /\ \E i \in 1..Len(EnginePage) : IsNone(EnginePage[i].confidence)

\* C10 as stated: ocr2text of a recognize body is the newline-join of the
\* texts of all regions, in region order.
C10_RoundTripAllTexts ==
    RoundTripDone =>
        /\ ntext.kind = "Ok"
        /\ ntext.body.o.text.s = join(EngineTexts)

\* C10 amended: ocr2text of a recognize body is the newline-join, in region
\* order, of the texts that are not empty after trimming; regions whose text
\* is absent, empty or white space only leave no line.
C10_RoundTripNonBlankTexts ==
    RoundTripDone =>
        /\ ntext.kind = "Ok" /\ ntext.status = 200
        /\ DOMAIN ntext.body.o = {"text"}
        /\ ntext.body.o.text.s = join(SelectSeq(EngineTexts, LAMBDA x : ~IsBlank(x)))

\* a page with a white-space-only text between two real texts went round
C10_Witness ==
    /\ RoundTripDone
    /\ \E i, j \in 1..Len(EnginePage) :
        /\ i < j
        /\ EngineTexts[i] # <<>> /\ IsBlank(EngineTexts[i])
        /\ ~IsBlank(EngineTexts[j])

\* ---------------------------------------------------- the shared slot
Lifecycle == {"load", "unload", "status"}
Loaded(r) == resp[r].body.o.loaded.b
Returned(r) == pc[r] = "done"

\* C1: a model_status call returns the state the slot had at some moment
\* between its invocation and its response; so it never reports a state older
\* than the last load or unload that took effect before it was issued.
C1_StatusLinearizable ==
    \A r \in Reqs :
        (kind[r] = "status" /\ pc[r] \in {"ret", "done"}) =>
            /\ resp[r].kind = "Ok"
            /\ Loaded(r) \in seen[r]

\* a load has returned and two model_status calls, issued while the slot was
\* loaded and with no unload since, both answered loaded:true
C1_Witness ==
    \E l, s1, s2 \in Reqs :
        /\ s1 # s2
        /\ kind[l] = "load" /\ Returned(l) /\ resp[l].kind = "Ok"
        /\ kind[s1] = "status" /\ Returned(s1) /\ seen[s1] = {TRUE} /\ Loaded(s1)
        /\ kind[s2] = "status" /\ Returned(s2) /\ seen[s2] = {TRUE} /\ Loaded(s2)

\* number of live Arc handles to model m: the slot, the locals, the closures
Handles(m) ==
    (IF slot = m THEN 1 ELSE 0)
    + Cardinality({r \in Reqs : arc_ocr[r] = m})
    + Cardinality({r \in Reqs : arc_for_thread[r] = m})

\* C2: a model referenced by a request is not destroyed, whatever happened to
\* the slot meanwhile; the predict closure runs on the model the request took
\* from the slot; the strong count is the number of handles, the slot being at
\* most one of them; a model is destroyed only when no handle is left.
C2_ModelAliveWhileReferenced ==
    /\ slot \in Models \cup {NoModel}
    /\ \A r \in Reqs :
        /\ arc_ocr[r] # NoModel => arc_ocr[r] \notin dropped
        /\ arc_for_thread[r] # NoModel =>
            (arc_for_thread[r] \notin dropped /\ arc_for_thread[r] = arc_ocr[r])
    /\ \A m \in Models :
        /\ strong[m] = Handles(m)
        /\ m \in dropped => Handles(m) = 0

\* a predict call completed on a model after the slot was cleared or replaced,
\* and the model still exists while the request maps its result
C2_Witness ==
    \E r \in Reqs :
        /\ kind[r] = "recognize" /\ pc[r] = "respond" /\ res[r].t = "Ok"
        /\ arc_ocr[r] # NoModel /\ slot # arc_ocr[r]
        /\ strong[arc_ocr[r]] = 1 /\ arc_ocr[r] \notin dropped

\* C3: the mutex is held only between lock() and the read or swap of the slot
\* (and the return that follows it): never by a request that is building a
\* model, awaiting body chunks, decoding, dispatching, awaiting predict or
\* mapping its result.
C3_MutexHeldOnlyAroundSlotAccess ==
    /\ mutex \in Reqs \cup {0}
    /\ \A r \in Reqs :
        /\ mutex = r => pc[r] \in {"crit", "ret"}
        /\ pc[r] \in {"crit", "ret"} => mutex = r

\* a load swaps the slot under the mutex while a recognize awaits its predict
C3_Witness ==
    \E r, q \in Reqs :
        /\ kind[r] = "recognize" /\ pc[r] = "predict"
        /\ kind[q] = "load" /\ pc[q] = "ret" /\ mutex = q

\* a load, unload or model_status issued while a predict was running has
\* returned, and that predict is still running
C4_Witness ==
    \E q \in Reqs :
        /\ kind[q] \in Lifecycle /\ Returned(q) /\ resp[q].kind = "Ok"
        /\ \E p \in inflight[q] : pc[p] = "predict"

\* C5: a recognize that finds the slot empty answers ModelNotLoaded, and a
\* request answered ModelNotLoaded never had a worker-pool task.
C5_EmptySlotNoTask ==
    /\ [](\A r \in Reqs :
            resp[r].kind = "ModelNotLoaded" =>
                (~scheduled[r] /\ arc_for_thread[r] = NoModel /\ res[r] = BlockingErr))
    /\ [](\A r \in Reqs : scheduled[r] => arc_ocr[r] # NoModel \/ pc[r] = "done")
    /\ [][\A r \in Reqs :
            (kind[r] = "recognize" /\ pc[r] = "crit" /\ pc'[r] # "crit" /\ slot = NoModel)
                => ( /\ pc'[r] = "done"
                     /\ resp'[r].kind = "ModelNotLoaded" /\ resp'[r].status = 400
                     /\ ~scheduled'[r] )]_vars

\* an image was uploaded and decoded, the slot was empty: ModelNotLoaded
C5_Witness ==
    \E r \in Reqs :
        /\ kind[r] = "recognize" /\ Returned(r) /\ upload[r] = "image"
        /\ resp[r].kind = "ModelNotLoaded" /\ ~scheduled[r]

\* C6: a load whose build fails changes nothing in the slot and answers
\* ModelBuildFailure with the build message; a load that succeeds puts its
\* model in the slot in one step; the slot becomes empty only by an unload.
C6_FailedLoadKeepsSlot ==
    [][ /\ \A r \in Reqs :
            (kind[r] = "load" /\ pc[r] = "build" /\ pc'[r] = "done") =>
                /\ slot' = slot /\ strong' = strong /\ dropped' = dropped
                /\ resp'[r].kind = "ModelBuildFailure"
                /\ resp'[r].message = "Failed to build model"
        /\ \A r \in Reqs :
            (kind[r] = "load" /\ pc[r] = "build" /\ pc'[r] = "lock") => slot' = slot
        /\ \A r \in Reqs :
            (kind[r] = "load" /\ pc[r] = "crit" /\ pc'[r] = "ret") =>
                (slot' = arc_ocr[r] /\ slot' # NoModel)
        /\ (slot # NoModel /\ slot' = NoModel) =>
                \E u \in Reqs : kind[u] = "unload" /\ pc[u] = "crit" /\ pc'[u] = "ret"
      ]_vars

\* no model was ever built: a load failed on the empty slot, and a recognize
\* then got ModelNotLoaded
C6_Witness ==
    \E l, r \in Reqs :
        /\ kind[l] = "load" /\ Returned(l) /\ resp[l].kind = "ModelBuildFailure"
        /\ kind[r] = "recognize" /\ Returned(r) /\ resp[r].kind = "ModelNotLoaded"
        /\ built = 0

\* C7: unload succeeds whatever the slot held, and right after its swap the
\* slot is empty, so that model_status reads loaded:false.
C7_UnloadIdempotent ==
    \A u \in Reqs :
        (kind[u] = "unload" /\ pc[u] \in {"ret", "done"}) =>
            /\ resp[u].kind = "Ok" /\ resp[u].status = 200
            /\ pc[u] = "ret" => (slot = NoModel /\ ~is_some(slot))
            /\ \A s \in Reqs :
                (kind[s] = "status" /\ Returned(s) /\ seen[s] = {FALSE}) => ~Loaded(s)

\* two unloads in a row on an empty slot both succeeded, and a model_status
\* after them answered loaded:false
C7_Witness ==
    \E u1, u2, s \in Reqs :
        /\ u1 < u2
        /\ kind[u1] = "unload" /\ Returned(u1) /\ resp[u1].kind = "Ok"
        /\ kind[u2] = "unload" /\ Returned(u2) /\ resp[u2].kind = "Ok"
        /\ old[u1] = NoModel /\ old[u2] = NoModel
        /\ kind[s] = "status" /\ Returned(s) /\ ~Loaded(s)

\* C8: every request that ended produced either a success or one structured
\* error response with a message.
C8_SuccessOrStructuredError ==
    \A r \in Reqs :
        Returned(r) =>
            \/ resp[r].kind = "Ok" /\ resp[r].status = 200
            \/ /\ resp[r].kind \in {"BadInput", "ModelNotLoaded", "ModelBuildFailure",
                                    "InferenceFailure", "TaskFailure"}
               /\ resp[r].status \in {400, 500}
               /\ resp[r].message # ""

\* ========================================================= ocr2text alone
MaxLines == 2       \* lines of a single-page result
MaxPages == 2       \* pages of a multi-page result

\* lines a client may post: well formed, or broken in one place
SampleBox == JArr(<<JArr(<<JNum(0), JNum(0)>>), JArr(<<JNum(2), JNum(1)>>)>>)
TextLine(x) == JArr(<<SampleBox, JArr(<<JStr(x), JNum(90)>>)>>)
LineSamples ==
    {TextLine(x) : x \in {<<>>, <<" ">>, <<"a">>, <<"b">>, <<" ", "b">>}}
    \cup { JArr(<<SampleBox>>),                                 \* no line[1]
           JArr(<<SampleBox, JStr(<<"a">>)>>),                  \* line[1] not an array
           JArr(<<SampleBox, JArr(<<JNum(1), JNum(90)>>)>>),    \* text not a string
           JNull }
LineLists == UNION {[1..k -> LineSamples] : k \in 0..MaxLines}

\* elements of a multi-page result
PageSamples ==
    { JObj([page |-> JNum(1),
            result |-> JArr(<<JArr(<<TextLine(<<"a">>), TextLine(<<" ">>), TextLine(<<"b">>)>>)>>)]),
      JObj([page |-> JNum(2), result |-> JArr(<<JArr(<<TextLine(<<"b">>)>>)>>)]),
      JObj([page |-> JNum(2),
            result |-> JArr(<<JArr(<<TextLine(<<"a">>)>>), JArr(<<TextLine(<<"b">>)>>)>>)]),
      JObj([page |-> JNum(3)]),
      JObj([page |-> JNum(3), result |-> JNull]),
      JObj([page |-> JNum(3), result |-> JArr(<<>>)]),
      JObj([page |-> JNum(3), result |-> JArr(<<JStr(<<"a">>)>>)]),
      JObj([result |-> JArr(<<JArr(<<TextLine(<<"a">>)>>)>>)]),
      JNull }

ResultSamples ==
    {JNull, JStr(<<"a">>), JArr(<<>>), JArr(<<JStr(<<"a">>)>>), JObj([page |-> JNum(1)])}
    \cup {JArr(<<JArr(ll)>>) : ll \in LineLists}
    \cup {JArr(<<JArr(<<TextLine(<<"a">>)>>), JArr(<<TextLine(<<"b">>)>>)>>)}
    \cup {JArr(ps) : ps \in UNION {[1..k -> PageSamples] : k \in 1..MaxPages}}

\* JSON bodies the extractor hands to the handler
Bodies ==
    {JObj([result |-> v]) : v \in ResultSamples}
    \cup { JObj([text |-> JStr(<<"a">>)]),
           JObj([results |-> JArr(<<JArr(<<TextLine(<<"a">>)>>)>>)]),
           JNull,
           JArr(<<JArr(<<TextLine(<<"a">>)>>)>>) }

TInit ==
    /\ SInit /\ NIdle /\ DIdle /\ MInit /\ BIdle
    /\ tpc = "ocr2text"
    /\ tin \in Bodies
    /\ tout = NoResponse

\* POST /api/ocr/ocr2text, lines 277-319
TextOcr2text ==
    /\ tpc = "ocr2text"
    /\ tout' = ocr2text(tin)
    /\ tpc' = "end"
    /\ UNCHANGED <<tin, svars, nvars, dvars, mvars, bvars>>

TNext == TextOcr2text

TextSpec == TInit /\ [][TNext]_vars

\* what the design says the text is, read off the posted JSON
HasResultKey(b) == b.t = "obj" /\ "result" \in DOMAIN b.o
At(v, i) == IF v.t = "arr" /\ Len(v.a) > i THEN v.a[i + 1] ELSE JNull
Field(v, k) == IF v.t = "obj" /\ k \in DOMAIN v.o THEN v.o[k] ELSE JNull
Elems(v) == IF v.t = "arr" THEN v.a ELSE <<>>
KeptText(line) ==
    LET x == At(At(line, 1), 0)
    IN IF x.t = "str" /\ ~IsBlank(x.s) THEN <<x.s>> ELSE <<>>
RECURSIVE Flat(_)
Flat(ss) == IF ss = <<>> THEN <<>> ELSE Head(ss) \o Flat(Tail(ss))
KeptTexts(lines) == Flat([i \in 1..Len(lines) |-> KeptText(lines[i])])
BearsPages(result) ==
    /\ result.t = "arr" /\ Len(result.a) >= 1
    /\ result.a[1].t = "obj" /\ "page" \in DOMAIN result.a[1].o
ExpectedTexts(result) ==
    IF BearsPages(result)
    THEN Flat([p \in 1..Len(result.a) |->
                KeptTexts(Elems(At(Field(result.a[p], "result"), 0)))])
    ELSE KeptTexts(Elems(At(result, 0)))

\* C11: ocr2text answers InvalidResultFormat (400, no text) exactly when the
\* body has no top-level "result" key; with the key, whatever its value, it
\* answers 200 {"text": ...}, and the text is empty when nothing is collected.
C11_ErrorIffResultKeyMissing ==
    tpc = "end" =>
        /\ ~HasResultKey(tin) =>
            (tout.kind = "InvalidResultFormat" /\ tout.status = 400 /\ tout.body.t = "null")
        /\ HasResultKey(tin) =>
            /\ tout.kind = "Ok" /\ tout.status = 200
            /\ tout.body.t = "obj" /\ DOMAIN tout.body.o = {"text"}
            /\ tout.body.o.text.t = "str"
            /\ tin.o.result.t \in {"null", "str", "obj"} => tout.body.o.text.s = <<>>
            /\ (tin.o.result.t = "arr" /\ Elems(At(tin.o.result, 0)) = <<>>
                    /\ ~BearsPages(tin.o.result))
                => tout.body.o.text.s = <<>>

\* {"result": null} was posted and answered 200 with the empty text
C11_Witness ==
    /\ tpc = "end" /\ HasResultKey(tin) /\ tin.o.result.t = "null"
    /\ tout.kind = "Ok" /\ tout.body.o.text.s = <<>>

\* C17: the text is the newline-join of the strings at line[1][0] that are
\* not blank, in the order met; a non-empty array whose first element is an
\* object with a "page" key is multi-page, each element giving the lines of
\* result[0] of its own "result" (nothing when absent or malformed); any
\* other result gives the lines of its first element.
C17_TextIsJoinOfKeptLines ==
    (tpc = "end" /\ HasResultKey(tin)) =>
        /\ tout.kind = "Ok"
        /\ tout.body.o.text.s = join(ExpectedTexts(tin.o.result))

\* a two-page result, one page malformed, the other giving two texts
C17_Witness ==
    /\ tpc = "end" /\ HasResultKey(tin) /\ BearsPages(tin.o.result)
    /\ Len(tin.o.result.a) >= 2
    /\ \E p \in 1..Len(tin.o.result.a) :
        Field(tin.o.result.a[p], "result").t # "arr"
    /\ Len(ExpectedTexts(tin.o.result)) >= 2
    /\ tout.kind = "Ok" /\ tout.body.o.text.s # <<>>

\* ============================================================ draw alone
\* a decoded RGB image: width, height and the colour of every pixel
Pixels(w, h) == (0..(w - 1)) \X (0..(h - 1))
Image(w, h) ==
    [w |-> w, h |-> h, px |-> [c \in Pixels(w, h) |-> IF c[1] = c[2] THEN "w" ELSE "k"]]
Images == {Image(4, 3), Image(3, 3)}
Red == "r"                      \* Rgb([255, 0, 0])

DropScores == {50, 90}          \* drop_score, in hundredths; 50 is the default
DrawPolygons ==
    { << <<0, 0>>, <<2, 0>>, <<2, 2>>, <<0, 2>> >>,
      << <<1, 1>>, <<4, 0>>, <<5, 2>>, <<2, 3>> >>,
      << <<0, 1>>, <<2, 1>>, <<2, 1>>, <<0, 1>> >> }
PolygonJson(pts) == JArr([i \in 1..Len(pts) |-> JArr(<<JNum(pts[i][1]), JNum(pts[i][2])>>)])
DrawLine(pts, score) == JArr(<<PolygonJson(pts), JArr(<<JStr(<<"a">>), JNum(score)>>)>>)
DrawLineSamples ==
    {DrawLine(pts, sc) : pts \in DrawPolygons, sc \in {10, 90}} \cup {JNull}
DrawLineLists == UNION {[1..k -> DrawLineSamples] : k \in 0..MaxLines}
DrawJsons ==
    {JObj([result |-> JArr(<<JArr(ll)>>)]) : ll \in DrawLineLists}
    \cup { JObj([result |-> JArr(<<>>)]),
           JObj([result |-> JNull]),
           JObj([text |-> JStr(<<"a">>)]) }

\* what the multipart loop of draw collected
DInputs ==
    [file : {"image"}, img : Images, ocr : {"present"}, parsed : DrawJsons,
     drop : DropScores, enc : BOOLEAN]
    \cup [file : {"corrupt", "missing", "chunkerr"}, img : {Image(3, 3)},
          ocr : {"present", "missing", "badjson"},
          parsed : {JObj([result |-> JArr(<<>>)])}, drop : {50}, enc : {TRUE}]
    \cup [file : {"image"}, img : {Image(3, 3)}, ocr : {"missing", "badjson", "chunkerr"},
          parsed : {JObj([result |-> JArr(<<>>)])}, drop : {50}, enc : BOOLEAN]

\* line 238: the first element of a non-empty array, else the value itself
LinesArr(lines) ==
    IF is_array(lines) /\ lines.a # <<>> THEN lines.a[1] ELSE lines

\* lines 245-246: the k-th coordinate of every point that has one
Coords(pts, k) ==
    {pts[i].a[k].n : i \in {j \in 1..Len(pts) :
        pts[j].t = "arr" /\ Len(pts[j].a) >= k /\ pts[j].a[k].t = "num"}}
SetMin(S) == CHOOSE x \in S : \A y \in S : x <= y
SetMax(S) == CHOOSE x \in S : \A y \in S : x >= y

\* lines 242-252: the rectangle of an item, if it has points
ItemRect(item) ==
    LET bp == get_idx(item, 0)
    IN IF IsNone(bp) \/ ~is_array(Unwrap(bp)) THEN None
       ELSE LET xs == Coords(Unwrap(bp).a, 1)
                ys == Coords(Unwrap(bp).a, 2)
            IN IF xs = {} \/ ys = {} THEN None
               ELSE Some([x |-> SetMin(xs), y |-> SetMin(ys),
                          width |-> SetMax(xs) - SetMin(xs),
                          height |-> SetMax(ys) - SetMin(ys)])

\* imageproc Rect::of_size asserts width > 0 and height > 0
RectPanics(rect) == rect.width = 0 \/ rect.height = 0

\* draw_hollow_rect_mut: the four sides from (left, top) to (right, bottom),
\* right = left + width - 1, bottom = top + height - 1, clipped to the image
Border(rect) ==
    LET left == rect.x
        top == rect.y
        right == rect.x + rect.width - 1
        bottom == rect.y + rect.height - 1
    IN {c \in (left..right) \X (top..bottom) :
            c[1] = left \/ c[1] = right \/ c[2] = top \/ c[2] = bottom}
Paint(img, rect) ==
    [img EXCEPT !.px = [c \in DOMAIN img.px |-> IF c \in Border(rect) THEN Red ELSE img.px[c]]]

\* lines 240-257: every item in turn; ok is FALSE when of_size panicked
RECURSIVE DrawItems(_, _)
DrawItems(img, items) ==
    IF items = <<>> THEN [ok |-> TRUE, img |-> img]
    ELSE LET rc == ItemRect(Head(items))
         IN IF IsNone(rc) THEN DrawItems(img, Tail(items))
            ELSE IF RectPanics(Unwrap(rc)) THEN [ok |-> FALSE, img |-> img]
            ELSE DrawItems(Paint(img, Unwrap(rc)), Tail(items))

\* lines 235-259
Overlay(img, parsed) ==
    LET lines == get_key(parsed, "result")
    IN IF IsNone(lines) THEN [ok |-> TRUE, img |-> img]
       ELSE IF is_array(LinesArr(Unwrap(lines)))
            THEN DrawItems(img, LinesArr(Unwrap(lines)).a)
            ELSE [ok |-> TRUE, img |-> img]

\* lines 262-269: PngEncoder::write_image(data, w, h, Rgb8)
EncodePngTransposed(img) == [t |-> "png", w |-> img.h, h |-> img.w, px |-> img.px]
EncodePng(img) == [t |-> "png", w |-> img.w, h |-> img.h, px |-> img.px]

\* the draw handler from end to end, lines 199-274
Draw(in) ==
    IF in.file = "chunkerr" \/ in.ocr = "chunkerr" THEN Aborted
    ELSE IF in.file = "missing" THEN ErrResponse(400, "BadInput", "missing file")
    ELSE IF in.ocr = "missing" THEN ErrResponse(400, "BadInput", "missing ocr_result")
    ELSE IF in.file = "corrupt" THEN ErrResponse(400, "BadInput", "Failed to decode image")
    ELSE IF in.ocr = "badjson"
    THEN ErrResponse(400, "InvalidResultFormat", "Invalid ocr_result JSON")
    ELSE IF ~Overlay(in.img, in.parsed).ok THEN Aborted
    ELSE IF ~in.enc THEN ErrResponse(500, "EncodeFailure", "Failed to encode PNG")
    ELSE OkResponse("image/png", EncodePng(Overlay(in.img, in.parsed).img))

DInit ==
    /\ SInit /\ NIdle /\ TIdle /\ MInit /\ BIdle
    /\ dpc = "draw"
    /\ din \in DInputs
    /\ dout = NoResponse

\* POST /api/ocr/draw
DrawRequest ==
    /\ dpc = "draw"
    /\ dout' = Draw(din)
    /\ dpc' = "end"
    /\ UNCHANGED <<din, svars, nvars, tvars, mvars, bvars>>

DNext == DrawRequest

DrawSpec == DInit /\ [][DNext]_vars

\* ---- claims about draw
DrawDone == dpc = "end"
DrawResult == get_key(din.parsed, "result")
\* the request got through the multipart loop and the overlay without a panic
DrawNoPanic ==
    /\ din.file # "chunkerr" /\ din.ocr # "chunkerr"
    /\ (din.file = "image" /\ din.ocr = "present") => Overlay(din.img, din.parsed).ok
DrawValidUpload == din.file = "image" /\ din.ocr = "present"

\* C12: in draw a malformed result JSON, a missing upload field, a submitted
\* result without its `result` key, an undecodable image and an encoder failure
\* each end the request with an error response of their own kind, never with a
\* success.
C12_DrawFailuresAreErrors ==
    (DrawDone /\ DrawNoPanic) =>
        /\ din.file \in {"missing", "corrupt"} => dout.kind = "BadInput"
        /\ (din.file = "image" /\ din.ocr = "missing") => dout.kind = "BadInput"
        /\ (din.file = "image" /\ din.ocr = "badjson") => dout.kind = "InvalidResultFormat"
        /\ (DrawValidUpload /\ IsNone(DrawResult)) => dout.kind = "InvalidResultFormat"
        /\ (DrawValidUpload /\ IsSome(DrawResult) /\ ~din.enc) => dout.kind = "EncodeFailure"

EmptyLineList ==
    /\ IsSome(DrawResult)
    /\ is_array(Unwrap(DrawResult))
    /\ \/ Unwrap(DrawResult).a = <<>>
       \/ /\ Len(Unwrap(DrawResult).a) = 1
          /\ is_array(Unwrap(DrawResult).a[1])
          /\ Unwrap(DrawResult).a[1].a = <<>>

\* C13: draw with an empty line list (result [[]] or result []) succeeds with
\* an image of the input's width and height whose every pixel equals the
\* decoded input.
C13_EmptyLineListLeavesImage ==
    (DrawDone /\ DrawValidUpload /\ din.enc /\ EmptyLineList) =>
        /\ dout.status = 200
        /\ dout.body.t = "png"
        /\ dout.body.w = din.img.w
        /\ dout.body.h = din.img.h
        /\ dout.body.px = din.img.px
C13_Witness ==
    /\ DrawDone /\ DrawValidUpload /\ din.enc /\ EmptyLineList
    /\ din.img.w # din.img.h
    /\ Unwrap(DrawResult).a # <<>>
    /\ dout.status = 200

\* the first page's lines, when every one of them is [polygon, [text, score]]
FirstPageLines == Unwrap(DrawResult).a[1].a
WellFormedLines ==
    /\ IsSome(DrawResult)
    /\ is_array(Unwrap(DrawResult))
    /\ Len(Unwrap(DrawResult).a) = 1
    /\ is_array(Unwrap(DrawResult).a[1])
    /\ FirstPageLines # <<>>
    /\ \A i \in 1..Len(FirstPageLines) : is_array(FirstPageLines[i])
\* the min corner of the envelope of a line's polygon
MinCorner(line) ==
    <<SetMin(Coords(line.a[1].a, 1)), SetMin(Coords(line.a[1].a, 2))>>

\* C18: draw draws one hollow rectangle for every line of the first page,
\* whatever the line's score and whatever drop_score is; this holds for every
\* line the schema allows, a polygon with a zero-width or zero-height envelope
\* included.
C18_RectanglePerLineAnyScore ==
    (DrawDone /\ DrawValidUpload /\ din.enc /\ WellFormedLines) =>
        /\ dout.status = 200
        /\ \A d \in DropScores : Draw([din EXCEPT !.drop = d]) = dout
        /\ \A i \in 1..Len(FirstPageLines) :
              MinCorner(FirstPageLines[i]) \in DOMAIN din.img.px
                  => dout.body.px[MinCorner(FirstPageLines[i])] = Red

\* ---- claims about the order of the checks in recognize
BadUploads == {"missing", "unknown", "corrupt"}

\* C14: recognize checks the file field, then probes the format, then decodes,
\* then takes the slot snapshot, then dispatches, and stops at the first
\* failure: a missing file, an undetectable or unsupported format and an
\* undecodable image each end in BadInput, the probe's before the decoder's,
\* whatever the slot holds and without the request ever taking the mutex, a
\* handle or a worker.
C14_ChecksInOrderBeforeSlot ==
    \A r \in Reqs :
        kind[r] = "recognize" =>
            /\ pc[r] \in {"lock", "crit", "dispatch", "predict", "respond"}
                  => upload[r] = "image"
            /\ upload[r] \in BadUploads =>
                  /\ mutex # r
                  /\ arc_ocr[r] = NoModel /\ arc_for_thread[r] = NoModel
                  /\ ~scheduled[r]
            /\ (pc[r] = "done" /\ upload[r] \in BadUploads) =>
                  /\ resp[r].status = 400 /\ resp[r].kind = "BadInput"
                  /\ resp[r].message =
                        IF upload[r] = "missing" THEN "missing file"
                        ELSE IF upload[r] = "unknown"
                        THEN "Unsupported file type or PDF is not supported by Rust service yet"
                        ELSE "Failed to decode image"
\* with a model in the slot, one recognize was refused by the format probe and
\* another by the decoder
C14_Witness ==
    \E p, d \in Reqs :
        /\ slot # NoModel
        /\ kind[p] = "recognize" /\ pc[p] = "done" /\ upload[p] = "unknown"
        /\ resp[p].kind = "BadInput"
        /\ kind[d] = "recognize" /\ pc[d] = "done" /\ upload[d] = "corrupt"
        /\ resp[d].message = "Failed to decode image"

\* ---- claims about the failures after dispatch
\* C15: once the task is dispatched, a failure of the predict work, a fault
\* inside the engine on the worker included, is answered InferenceFailure, and
\* only a task that could not be scheduled or run is answered TaskFailure; in
\* both cases the request's handles are released and the slot is as it was.
C15_WorkFailureIsInferenceFailure ==
    /\ [](\A r \in Reqs :
            (kind[r] = "recognize" /\ pc[r] = "done" /\ scheduled[r]) =>
                /\ res[r].t \in {"Err", "Panic"} => resp[r].kind = "InferenceFailure"
                /\ res[r].t = "BlockingError" => resp[r].kind = "TaskFailure"
                /\ resp[r].kind = "TaskFailure" => res[r].t = "BlockingError"
                /\ res[r].t # "Ok" =>
                      (arc_ocr[r] = NoModel /\ arc_for_thread[r] = NoModel))
    /\ [][\A r \in Reqs :
            (kind[r] = "recognize" /\ pc[r] \in {"predict", "respond"} /\ pc'[r] # pc[r])
                => slot' = slot]_vars

\* ================================================ the seven handlers together
\* health, draw and ocr2text run next to the four handlers of the slot
FrameDrawInputs ==
    [file : {"image", "chunkerr"}, img : {Image(3, 3)}, ocr : {"present", "badjson"},
     parsed : {JObj([result |-> JArr(<<JArr(<<DrawLine(<< <<0, 0>>, <<2, 2>> >>, 90)>>)>>)])},
     drop : {50}, enc : {TRUE}]
FrameBodies == {NormalizePage(<<SampleRegion>>), JNull}

\* line 35
health == OkResponse("", JObj([status |-> JStr(<<"o", "k">>)]))

\* a handler that takes no argument of the application state, or never reads
\* it (draw, line 200: _state), answers in one step of its own
Answer(r, k, a) ==
    /\ pc[r] = "idle"
    /\ \A q \in Reqs : q < r => pc[q] # "idle"
    /\ kind' = [kind EXCEPT ![r] = k]
    /\ resp' = [resp EXCEPT ![r] = a]
    /\ pc' = [pc EXCEPT ![r] = "done"]
    /\ UNCHANGED <<slot, mutex, strong, dropped, built, upload, arc_ocr,
                   arc_for_thread, res, scheduled, seen, inflight, old>>

HealthCall(r) == Answer(r, "health", health)
DrawCall(r) == \E in \in FrameDrawInputs : Answer(r, "draw", Draw(in))
Ocr2textCall(r) == \E body \in FrameBodies : Answer(r, "ocr2text", ocr2text(body))

FNext ==
    \/ Next
    \/ \E r \in Reqs : HealthCall(r) /\ UNCHANGED ovars
    \/ \E r \in Reqs : DrawCall(r) /\ UNCHANGED ovars
    \/ \E r \in Reqs : Ocr2textCall(r) /\ UNCHANGED ovars

FrameSpec == Init /\ [][FNext]_vars

\* C16: the slot is changed by nothing but the swap of a successful load and
\* the swap of unload; a step of recognize, model_status, draw, ocr2text or
\* health, and every step of a load whose build failed, leaves it as it was.
C16_SlotChangedOnlyByLoadUnload ==
    [][ /\ slot' # slot =>
            \E r \in Reqs :
                /\ pc[r] = "crit" /\ pc'[r] = "ret" /\ mutex = r
                /\ \/ kind[r] = "load" /\ slot' = arc_ocr[r] /\ resp'[r].kind = "Ok"
                   \/ kind[r] = "unload" /\ slot' = NoModel
        /\ \A r \in Reqs :
            (/\ pc'[r] # pc[r]
             /\ \/ kind'[r] \in {"recognize", "status", "draw", "ocr2text", "health"}
                \/ resp'[r].kind = "ModelBuildFailure")
                => slot' = slot ]_vars
\* with a model in the slot a draw, an ocr2text or a health call and a
\* recognize have all ended, the recognize by running the model
C16_Witness ==
    \E a, p \in Reqs :
        /\ slot # NoModel
        /\ kind[a] \in {"draw", "ocr2text", "health"} /\ pc[a] = "done"
        /\ kind[p] = "recognize" /\ pc[p] = "done" /\ scheduled[p]

\* ---- claims about the end of a model
SwapStep(r) ==
    /\ kind[r] \in {"load", "unload"}
    /\ pc[r] = "crit" /\ pc'[r] = "ret"
HeldByRecognize(m) ==
    \E q \in Reqs : kind[q] = "recognize" /\ (arc_ocr[q] = m \/ arc_for_thread[q] = m)
Quiescent == \A r \in Reqs : pc[r] = "done"

\* C19: a built model is destroyed as soon as it is neither in the slot, nor
\* held by a recognize, nor on its way to the slot in the load that built it;
\* a swap by unload or by a replacing load destroys the old model at once when
\* no recognize holds it; a load's swap puts that load's model in the slot; and
\* when every request has returned, every model built except the one in the
\* slot is destroyed.
C19_NoModelLeaked ==
    /\ [](\A m \in Models : (m <= built /\ Handles(m) = 0) => m \in dropped)
    /\ [](Quiescent => \A m \in Models : (m <= built /\ m # slot) => m \in dropped)
    /\ [][\A r \in Reqs :
            SwapStep(r) =>
                /\ (slot # NoModel /\ slot' # slot /\ ~HeldByRecognize(slot))
                      => slot \in dropped'
                /\ kind[r] = "load" => (slot' = arc_ocr[r] /\ slot' \notin dropped')]_vars
\* two loads have returned, the second one's model is in the slot, the first
\* one's is destroyed, and a recognize ran on a model
C19_Witness ==
    /\ Quiescent
    /\ built = 2 /\ slot = 2 /\ dropped = {1}
    /\ \E p \in Reqs : kind[p] = "recognize" /\ scheduled[p] /\ resp[p].kind = "Ok"

\* ==================================================== the minimal service
\* src/backend/src/main.rs: /health and /ocr over one process-wide
\* OnceCell<Arc<OAROCR>>; cell is the value of the cell (NoModel: not set),
\* permit the request holding the cell's initialisation permit (0: free)
MiniUploads == {"image", "corrupt", "missing", "fielderr"}
MiniPredicts == {PredictOk(<<p>>) : p \in {<<>>, <<SampleRegion>>}} \cup {PredictErr, EnginePanic}

\* lines 60-68: every region that has a text adds the text and a newline
RECURSIVE MiniText(_)
MiniText(regions) ==
    IF regions = <<>> THEN <<>>
    ELSE (IF IsSome(Head(regions).text) /\ IsSome(Head(regions).confidence)
          THEN Unwrap(Head(regions).text) \o <<NL>> ELSE <<>>)
         \o MiniText(Tail(regions))

\* ocr_handler after get_ocr, lines 50-73
MiniHandle(up, out) ==
    IF up \in {"fielderr", "missing", "corrupt"} THEN ErrResponse(400, "BadRequest", "")
    ELSE IF out.t = "Panic" THEN Aborted
    ELSE IF out.t = "Err" THEN ErrResponse(500, "InternalServerError", "")
    ELSE OkResponse("", JObj([text |-> JStr(MiniText(out.batch[1]))]))

MStart(r) ==
    /\ mpc[r] = "idle"
    /\ \A q \in Reqs : q < r => mpc[q] # "idle"
    /\ mpc' = [mpc EXCEPT ![r] = "get"]
    /\ UNCHANGED <<cell, permit, mbuilt, mocr, mresp>>

\* health_handler, lines 41-45
MHealth(r) ==
    /\ mpc[r] = "idle"
    /\ \A q \in Reqs : q < r => mpc[q] # "idle"
    /\ mresp' = [mresp EXCEPT ![r] = health]
    /\ mpc' = [mpc EXCEPT ![r] = "done"]
    /\ UNCHANGED <<cell, permit, mbuilt, mocr>>

\* OnceCell::get_or_init, the fast path: the value is set
MCheck(r) ==
    /\ mpc[r] = "get"
    /\ IF cell # NoModel
       THEN /\ mocr' = [mocr EXCEPT ![r] = cell]
            /\ mpc' = [mpc EXCEPT ![r] = "fields"]
       ELSE /\ mocr' = mocr
            /\ mpc' = [mpc EXCEPT ![r] = "wait"]
    /\ UNCHANGED <<cell, permit, mbuilt, mresp>>

\* OnceCell::get_or_init, semaphore.acquire().await: the permit when it is
\* free, the value when the cell was set meanwhile (semaphore closed)
MAcquireUnguarded(r) ==
    /\ mpc[r] = "wait"
    /\ permit' = r
    /\ mpc' = [mpc EXCEPT ![r] = "init"]
    /\ UNCHANGED <<cell, mbuilt, mocr, mresp>>
MAcquire(r) ==
    /\ mpc[r] = "wait"
    /\ IF cell # NoModel
       THEN /\ mocr' = [mocr EXCEPT ![r] = cell]
            /\ mpc' = [mpc EXCEPT ![r] = "fields"]
            /\ permit' = permit
       ELSE /\ permit = 0
            /\ permit' = r
            /\ mocr' = mocr
            /\ mpc' = [mpc EXCEPT ![r] = "init"]
    /\ UNCHANGED <<cell, mbuilt, mresp>>

\* get_ocr, lines 18-26: build().expect(..) sets the value and closes the
\* semaphore, or panics: the permit is released on unwinding, the value stays
\* unset and the request gets no response
MBuild(r) ==
    /\ mpc[r] = "init"
    /\ \E ok \in BOOLEAN :
        IF ok
        THEN /\ mbuilt' = mbuilt + 1
             /\ cell' = mbuilt + 1
             /\ mocr' = [mocr EXCEPT ![r] = mbuilt + 1]
             /\ mpc' = [mpc EXCEPT ![r] = "fields"]
             /\ mresp' = mresp
        ELSE /\ mresp' = [mresp EXCEPT ![r] = Aborted]
             /\ mpc' = [mpc EXCEPT ![r] = "done"]
             /\ UNCHANGED <<mbuilt, cell, mocr>>
    /\ permit' = 0

\* ocr_handler, lines 50-73: the fields, the decoder, predict on the handle
MRespond(r) ==
    /\ mpc[r] = "fields"
    /\ \E up \in MiniUploads, out \in MiniPredicts :
        mresp' = [mresp EXCEPT ![r] = MiniHandle(up, out)]
    /\ mpc' = [mpc EXCEPT ![r] = "done"]
    /\ UNCHANGED <<cell, permit, mbuilt, mocr>>

MNext ==
    \/ \E r \in Reqs : MStart(r) /\ UNCHANGED <<svars, nvars, tvars, dvars, bvars>>
    \/ \E r \in Reqs : MHealth(r) /\ UNCHANGED <<svars, nvars, tvars, dvars, bvars>>
    \/ \E r \in Reqs : MCheck(r) /\ UNCHANGED <<svars, nvars, tvars, dvars, bvars>>
    \/ \E r \in Reqs : MAcquire(r) /\ UNCHANGED <<svars, nvars, tvars, dvars, bvars>>
    \/ \E r \in Reqs : MBuild(r) /\ UNCHANGED <<svars, nvars, tvars, dvars, bvars>>
    \/ \E r \in Reqs : MRespond(r) /\ UNCHANGED <<svars, nvars, tvars, dvars, bvars>>

MiniSpec == Init /\ [][MNext]_vars

\* C20: in the minimal service at most one build ever succeeds and is stored;
\* every request that goes on to its fields uses the stored handle; once
\* stored, the handle is never replaced or cleared; a failed build stores
\* nothing and frees the permit, so that a later request builds again.
C20_ModelBuiltAtMostOnce ==
    /\ [](mbuilt <= 1 /\ cell \in {NoModel, 1})
    /\ [](\A r \in Reqs : mpc[r] = "fields" => (mocr[r] # NoModel /\ mocr[r] = cell))
    /\ [](\A r \in Reqs : mocr[r] # NoModel => mocr[r] = cell)
    /\ [](Cardinality({r \in Reqs : mpc[r] = "init"}) <= 1)
    /\ [][cell # NoModel => cell' = cell]_vars
    /\ [][\A r \in Reqs :
            (mpc[r] = "init" /\ mresp'[r].kind = "Aborted")
                => (cell' = NoModel /\ permit' = 0 /\ mbuilt' = mbuilt)]_vars
\* a build failed and its request was dropped; a later request built the
\* model, and another request ran on that same handle
C20_Witness ==
    \E a, b, c \in Reqs :
        /\ a < b /\ b # c /\ a # c
        /\ mpc[a] = "done" /\ mresp[a].kind = "Aborted" /\ mocr[a] = NoModel
        /\ mbuilt = 1 /\ cell = 1
        /\ mpc[b] = "done" /\ mresp[b].kind = "Ok" /\ mocr[b] = cell
        /\ mpc[c] = "done" /\ mresp[c].kind = "Ok" /\ mocr[c] = cell

\* ===================================================== start_backend alone
\* src/frontend/src-tauri/src/lib.rs: the desktop shell spawns the backend
\* and reads its stdout line by line until a line tells the port
MaxStdout == 3      \* lines the backend writes before its stdout ends or fails
U16Max == 65535     \* u16::MAX

PORT == <<"P", "O", "R", "T", ":">>
Digits == <<"0", "1", "2", "3", "4", "5", "6", "7", "8", "9">>

\* lines the backend may print: ports that parse, PORT: lines that do not,
\* and other lines
BootLines ==
    { PORT \o <<"8", "0", "8", "1">>,
      PORT \o <<"6", "5", "5", "3", "5">>,
      PORT \o <<" ", "8", "0", " ">>,
      PORT \o <<"+", "0", "7">>,
      PORT \o <<"6", "5", "5", "3", "6">>,
      PORT \o <<"8", "a">>,
      PORT,
      <<" ">> \o PORT \o <<"8", "0">>,
      <<"a">> }
\* the stream: its lines, then end-of-file or a read error (an I/O error or a
\* line that is not UTF-8)
Stdouts ==
    [lines : UNION {[1..k -> BootLines] : k \in 0..MaxStdout}, end : {"eof", "err"}]
BootEnvs == {"ok", "no_current_exe", "missing", "spawn_fails"}

\* str::starts_with and str::strip_prefix, lines 61-62
starts_with(line, prefix) ==
    Len(line) >= Len(prefix) /\ SubSeq(line, 1, Len(prefix)) = prefix
strip_prefix(line, prefix) ==
    IF starts_with(line, prefix) THEN Some(SubSeq(line, Len(prefix) + 1, Len(line)))
    ELSE None

\* char::to_digit(10)
is_digit(c) == \E i \in 1..Len(Digits) : Digits[i] = c
to_digit(c) == (CHOOSE i \in 1..Len(Digits) : Digits[i] = c) - 1

\* u16::from_str, line 63: every character a digit, the value accumulated
\* with checked_mul and checked_add
RECURSIVE from_digits_wrapping(_, _)
from_digits_wrapping(s, acc) ==
    IF s = <<>> THEN Some(acc)
    ELSE IF ~is_digit(Head(s)) THEN None
    ELSE from_digits_wrapping(Tail(s), (acc * 10 + to_digit(Head(s))) % (U16Max + 1))
RECURSIVE from_digits(_, _)
from_digits(s, acc) ==
    IF s = <<>> THEN Some(acc)
    ELSE IF ~is_digit(Head(s)) THEN None
    ELSE IF acc * 10 + to_digit(Head(s)) > U16Max THEN None
    ELSE from_digits(Tail(s), acc * 10 + to_digit(Head(s)))

\* an empty string and a lone sign are errors, one leading "+" is dropped, a
\* "-" is no digit of an unsigned type
parse_u16(s) ==
    IF s = <<>> \/ s = <<"+">> \/ s = <<"-">> THEN None
    ELSE IF Head(s) = "+" THEN from_digits(Tail(s), 0)
    ELSE from_digits(s, 0)

\* lines 61-70: the port a line tells, if it tells one
on_line(line) ==
    IF ~starts_with(line, PORT) THEN None
    ELSE IF IsNone(strip_prefix(line, PORT)) THEN None
    ELSE parse_u16(trim(Unwrap(strip_prefix(line, PORT))))

BInit ==
    /\ SInit /\ NIdle /\ TIdle /\ DIdle /\ MInit
    /\ bpc = "start"
    /\ benv \in BootEnvs
    /\ bstdout \in Stdouts
    /\ benv # "ok" => Len(bstdout.lines) <= 1
    /\ bread = 0
    /\ bchild = "none"
    /\ bwaiter = FALSE
    /\ bret = NoReturn

\* lines 26-53: locate the executable, check that it exists, spawn it with
\* piped stdout and stderr
BSpawn ==
    /\ bpc = "start"
    /\ IF benv = "no_current_exe"
       THEN /\ bret' = RetErr("Failed to get current exe path")
            /\ bpc' = "returned"
            /\ bchild' = bchild
       ELSE IF benv = "missing"
       THEN /\ bret' = RetErr("Backend executable not found")
            /\ bpc' = "returned"
            /\ bchild' = bchild
       ELSE IF benv = "spawn_fails"
       THEN /\ bret' = RetErr("Failed to start backend process")
            /\ bpc' = "returned"
            /\ bchild' = bchild
       ELSE /\ bret' = bret
            /\ bpc' = "read"
            /\ bchild' = "running"
    /\ UNCHANGED <<benv, bstdout, bread, bwaiter>>

\* lines 58-78: one turn of the loop over reader.lines(); the first line that
\* tells a port moves the child to a thread that waits for it and returns the
\* port; the end of the stream or a read error ends the loop and returns the
\* error, the child handle is dropped (neither killed nor waited for)
BReadLine ==
    /\ bpc = "read"
    /\ IF bread < Len(bstdout.lines)
       THEN /\ bread' = bread + 1
            /\ IF IsSome(on_line(bstdout.lines[bread + 1]))
               THEN /\ bwaiter' = TRUE
                    /\ bret' = RetOk(Unwrap(on_line(bstdout.lines[bread + 1])))
                    /\ bpc' = "returned"
               ELSE UNCHANGED <<bwaiter, bret, bpc>>
       ELSE /\ bret' = RetErr("Failed to get port from backend process")
            /\ bpc' = "returned"
            /\ UNCHANGED <<bread, bwaiter>>
    /\ UNCHANGED <<benv, bstdout, bchild>>

\* the backend process ends by itself, at any time
ChildExit ==
    /\ bchild = "running"
    /\ bchild' = "exited"
    /\ UNCHANGED <<bpc, benv, bstdout, bread, bwaiter, bret>>

\* lines 65-67: child.wait() in the thread returns once the child has ended
BWait ==
    /\ bwaiter /\ bchild = "exited"
    /\ bchild' = "reaped"
    /\ bwaiter' = FALSE
    /\ UNCHANGED <<bpc, benv, bstdout, bread, bret>>

BNext ==
    \/ BSpawn /\ UNCHANGED <<svars, nvars, tvars, dvars, mvars>>
    \/ BReadLine /\ UNCHANGED <<svars, nvars, tvars, dvars, mvars>>
    \/ ChildExit /\ UNCHANGED <<svars, nvars, tvars, dvars, mvars>>
    \/ BWait /\ UNCHANGED <<svars, nvars, tvars, dvars, mvars>>

BootSpec == BInit /\ [][BNext]_vars

\* ---- claims about start_backend
\* a decimal numeral and its value, read from the right
IsNumeral(t) == t # <<>> /\ \A i \in 1..Len(t) : is_digit(t[i])
RECURSIVE Value(_)
Value(t) ==
    IF t = <<>> THEN 0
    ELSE Value(SubSeq(t, 1, Len(t) - 1)) * 10 + to_digit(t[Len(t)])
\* what follows PORT: on the line, white space around it and one leading
\* plus sign set aside
Payload(line) ==
    LET t == trim(SubSeq(line, Len(PORT) + 1, Len(line)))
    IN IF t # <<>> /\ Head(t) = "+" THEN Tail(t) ELSE t
\* a line of the form PORT:<valid u16>
IsPortLine(line) ==
    /\ Len(line) >= Len(PORT)
    /\ \A i \in 1..Len(PORT) : line[i] = PORT[i]
    /\ IsNumeral(Payload(line))
    /\ Value(Payload(line)) <= U16Max
PortLines == {i \in 1..Len(bstdout.lines) : IsPortLine(bstdout.lines[i])}
FirstPortLine == CHOOSE i \in PortLines : \A j \in PortLines : i <= j
BootReturned == bpc = "returned"

\* C21: start_backend returns Ok(p) exactly when the spawned backend's stdout
\* yields, before its end or a read error, a line PORT:<valid u16>; p is the
\* port of the first such line, every earlier line is skipped, nothing is read
\* after it, and the child is left running, waited for by a thread. When the
\* stream ends or fails first the call returns an error; when the executable
\* does not exist it returns an error and no process was spawned. Nothing but
\* the child itself ends the child.
C21_PortOfFirstPortLine ==
    /\ [](BootReturned =>
            /\ bret.ok <=> (benv = "ok" /\ PortLines # {})
            /\ bret.ok =>
                  /\ bret.port = Value(Payload(bstdout.lines[FirstPortLine]))
                  /\ bread = FirstPortLine
                  /\ bchild # "none"
                  /\ bwaiter \/ bchild = "reaped"
            /\ (benv = "ok" /\ PortLines = {}) =>
                  /\ bret.err = "Failed to get port from backend process"
                  /\ bread = Len(bstdout.lines)
                  /\ bchild # "none"
            /\ benv = "missing" =>
                  /\ ~bret.ok
                  /\ bchild = "none" /\ bread = 0 /\ ~bwaiter)
    /\ [](bchild = "none" => (bread = 0 /\ ~bwaiter))
    /\ [][bchild = "running" => (bchild' = "running" \/ (bchild' = "exited" /\ bret' = bret))]_vars
\* the call returned the port of the second line, after a PORT: line that does
\* not parse; the third line, another port, was never read; the child runs
C21_Witness ==
    /\ BootReturned /\ bret.ok
    /\ Len(bstdout.lines) = 3 /\ bread = 2
    /\ starts_with(bstdout.lines[1], PORT) /\ 1 \notin PortLines
    /\ 3 \in PortLines
    /\ bret.port # Value(Payload(bstdout.lines[3]))
    /\ bchild = "running" /\ bwaiter

====
